---- MODULE Spec2Model ----
(***************************************************************************)
(* A model of the in-memory cache of src/cache.go (package goinmemcache),  *)
(* instantiated as cache[string, string]: the store (items), the recency   *)
(* list with its two sentinels, the expiration heap with its key index,    *)
(* the tracked size, the background sweeper and Close.                     *)
(*                                                                         *)
(* Every public method holds c.mu for its whole body, so each is one       *)
(* action.  The clock is the variable now; one method call reads the same  *)
(* instant at each of its time.Now() / time.Since() calls.                 *)
(***************************************************************************)
EXTENDS Integers, Sequences, FiniteSets, TLC

\* ---------------------------------------------------------------- bounds
MaxKeys == 3
MaxVal  == 1
MaxTTL  == 2
MaxTime == 2
MaxHeap == 2
MaxCallers == 2

\* Keys are strings; key k is a string of k bytes.
Keys == 1..MaxKeys
\* A *V is nil, <<>>, or points to a string of v bytes, <<v>>.
Values == {<<>>} \cup {<<v>> : v \in 1..MaxVal}
\* The ttl argument of SetWithTTL (a time.Duration, possibly <= 0).
TTLs == (0 - 1)..MaxTTL
\* Config.MaxItems and Config.Size: nil, <<>>, or a pointer to a bound.
MaxItemsChoices == {<<>>} \cup {<<n>> : n \in 0..(MaxKeys - 1)}
SizeChoices == {<<>>, <<50>>, <<101>>}

\* ------------------------------------------------------------- the state
VARIABLES
    maxItems,         \* cache.maxItems
    size,             \* cache.size
    items,            \* cache.items: map from key to cacheItem
    nodes,            \* the listNodes: head, tail and one per stored key
    sizeBytes,        \* cache.sizeBytes
    expirationQueue,  \* cache.expirationQueue: array of expirationEntry
    expirationMap,    \* cache.expirationMap: key -> its entry's position
    now,              \* the clock read by time.Now()
    stopChan,         \* "open" or "closed"
    tickPending,      \* a tick is delivered and its sweep has not run
    sweeper,          \* the goroutine of New: "running" or "stopped"
    panicked,         \* a caller panicked (close of a closed channel)
    last,             \* the last call made and what it returned
    inserted,         \* the distinct keys Set one after another into the
                      \* empty cache, or <<0>> after any other mutation
    mu,               \* cache.mu: a writer holds it, or so many readers
    calls,            \* where each goroutine is in the method it called
    own               \* what caller 1 wrote last, while no other caller
                      \* has written, deleted or cleared that key

cacheVars == <<items, nodes, sizeBytes, expirationQueue, expirationMap>>
configVars == <<maxItems, size>>
sweeperVars == <<stopChan, tickPending, sweeper, panicked>>
callerVars == <<mu, calls, own>>
vars == <<maxItems, size, items, nodes, sizeBytes, expirationQueue,
          expirationMap, now, stopChan, tickPending, sweeper, panicked, last,
          inserted, mu, calls, own>>

\* The goroutines: the one New starts and the callers.
theSweeper == 0
Callers == 1..MaxCallers
Goroutines == {theSweeper} \cup Callers

\* A goroutine outside every method, and cache.mu held by nobody.
idle == [at |-> "idle"]
unlocked == [writer |-> FALSE, readers |-> 0]

\* The element of a one-element set.  {e : x \in {v}} binds x to the value
\* of v once, as a local variable of the Go code holds a value.
The(S) == CHOOSE r \in S : TRUE

\* ------------------------------------------------------- the recency list
\* Node 0 is the head sentinel, node MaxKeys + 1 the tail sentinel, and
\* node k the listNode allocated for key k.  A nil pointer is -1.
head == 0
tail == MaxKeys + 1
nilNode == 0 - 1
NodeIds == head..tail

newNode(key) == [key |-> key, prev |-> nilNode, next |-> nilNode]

InitNodes ==
    [n \in NodeIds |->
        IF n = head THEN [key |-> 0, prev |-> nilNode, next |-> tail]
        ELSE IF n = tail THEN [key |-> 0, prev |-> head, next |-> nilNode]
        ELSE newNode(n)]

\* A variant for C39: an unlink that sets prev.next and leaves next.prev.
removeNodeForward(nodes0, node) ==
    The({ [ns EXCEPT ![ns[node].prev].next = ns[node].next]
          : ns \in {nodes0} })

removeNode(nodes0, node) ==
    The({ [ns EXCEPT ![ns[node].prev].next = ns[node].next,
                     ![ns[node].next].prev = ns[node].prev]
          : ns \in {nodes0} })

addToTail(nodes0, node) ==
    The({ [ns EXCEPT ![ns[tail].prev].next = node,
                     ![node].prev = ns[tail].prev,
                     ![node].next = tail,
                     ![tail].prev = node]
          : ns \in {nodes0} })

moveToTail(nodes0, node) == addToTail(removeNode(nodes0, node), node)

isEmpty(ns) == ns[head].next = tail

RECURSIVE listCount(_, _, _)
listCount(ns, current, fuel) ==
    IF current = tail \/ current = nilNode \/ fuel = 0 THEN 0
    ELSE 1 + listCount(ns, ns[current].next, fuel - 1)

listSize(ns) == listCount(ns, ns[head].next, MaxKeys + 2)

\* The keys of the list from head to tail, oldest first.
RECURSIVE listFrom(_, _, _)
listFrom(ns, current, fuel) ==
    IF current = tail \/ current = nilNode \/ fuel = 0 THEN <<>>
    ELSE <<ns[current].key>> \o listFrom(ns, ns[current].next, fuel - 1)

listKeys(ns) == listFrom(ns, ns[head].next, MaxKeys + 2)

\* A node no entry refers to is garbage: it is as a fresh allocation.
collect(ns, its) ==
    [n \in NodeIds |->
        IF n \in {head, tail} \/ n \in DOMAIN its THEN ns[n] ELSE newNode(n)]

\* ----------------------------------------------------- the expiration heap
\* A heap state is a record [q, m]: q is the array of entries (position p
\* of q is index p - 1 of the Go slice), m maps a key to the position of
\* the entry that expirationMap[key] points to (0: an entry that has left
\* the array).  container/heap is modelled as the Go library defines it.
Less(q, i, j) == q[i].expireTime < q[j].expireTime

Swap(hs0, i, j) ==
    The({ [q |-> [hs.q EXCEPT ![i] = [hs.q[j] EXCEPT !.index = i - 1],
                              ![j] = [hs.q[i] EXCEPT !.index = j - 1]],
           m |-> [k \in DOMAIN hs.m |->
                    IF hs.m[k] = i THEN j
                    ELSE IF hs.m[k] = j THEN i ELSE hs.m[k]]]
          : hs \in {hs0} })

RECURSIVE up(_, _)
up(hs0, j) ==
    The({ IF j \div 2 < 1 \/ ~Less(hs.q, j, j \div 2) THEN hs
          ELSE up(Swap(hs, j \div 2, j), j \div 2)
          : hs \in {hs0} })

\* The child of position i that down compares with i, among the first n.
downChild(q, i, n) ==
    IF 2 * i + 1 <= n /\ Less(q, 2 * i + 1, 2 * i) THEN 2 * i + 1 ELSE 2 * i

\* down over the first n positions; returns [hs, i]: the heap and the
\* position the element came to rest at.
RECURSIVE down(_, _, _)
down(hs0, i, n) ==
    The({ IF 2 * i > n THEN [hs |-> hs, i |-> i]
          ELSE IF ~Less(hs.q, downChild(hs.q, i, n), i)
          THEN [hs |-> hs, i |-> i]
          ELSE down(Swap(hs, i, downChild(hs.q, i, n)),
                    downChild(hs.q, i, n), n)
          : hs \in {hs0} })

\* expirationHeap.Pop: the last element leaves the array and its index
\* becomes -1; a pointer of m to it then points outside the array.
heapDropLast(hs0) ==
    The({ [q |-> SubSeq(hs.q, 1, Len(hs.q) - 1),
           m |-> [k \in DOMAIN hs.m |->
                    IF hs.m[k] = Len(hs.q) THEN 0 ELSE hs.m[k]]]
          : hs \in {hs0} })

\* heap.Push(h, entry).
heapPush(hs0, key, expireTime) ==
    The({ up([q |-> Append(hs.q, [key |-> key, expireTime |-> expireTime,
                                  index |-> Len(hs.q)]),
              m |-> hs.m],
             Len(hs.q) + 1)
          : hs \in {hs0} })

\* heap.Pop(h): the root leaves the heap.
heapPop(hs0) ==
    The({ heapDropLast(down(Swap(hs, 1, Len(hs.q)), 1, Len(hs.q) - 1).hs)
          : hs \in {hs0} })

\* heap.Remove(h, i) for position i.
heapRemove(hs0, i) ==
    The({ IF Len(hs.q) = i THEN heapDropLast(hs)
          ELSE The({ heapDropLast(IF d.i > i THEN d.hs ELSE up(d.hs, i))
                     : d \in {down(Swap(hs, i, Len(hs.q)), i,
                                   Len(hs.q) - 1)} })
          : hs \in {hs0} })

mapDelete(m, key) == [k \in DOMAIN m \ {key} |-> m[k]]

\* The index field of the entry expirationMap[key] points to.
entryIndex(hs, key) ==
    IF hs.m[key] = 0 THEN 0 - 1 ELSE hs.q[hs.m[key]].index

\* heap.Push(h, entry) and then c.expirationMap[key] = entry.
addExpirationEntry(hs0, key, expireTime) ==
    The({ heapPush([q |-> hs.q,
                    m |-> [k \in DOMAIN hs.m \cup {key} |->
                             IF k = key THEN Len(hs.q) + 1 ELSE hs.m[k]]],
                   key, expireTime)
          : hs \in {hs0} })

removeExpirationEntry(hs0, key) ==
    The({ IF key \in DOMAIN hs.m
          THEN The({ [q |-> hs1.q, m |-> mapDelete(hs1.m, key)]
                     : hs1 \in {IF entryIndex(hs, key) >= 0
                                   /\ entryIndex(hs, key) < Len(hs.q)
                                THEN heapRemove(hs, entryIndex(hs, key) + 1)
                                ELSE hs} })
          ELSE hs
          : hs \in {hs0} })

\* ------------------------------------------------------ size estimation
itemOverhead == 48

fastCalculateItemSize(key, value) ==
    key + (IF value = <<>> THEN 0 ELSE value[1]) + itemOverhead

\* --------------------------------------------------------- cache helpers
\* A cache state is a record [items, nodes, sizeBytes, hs].
\* A variant for C2: an entry still valid at the instant its TTL ends.
isItemValidInclusive(item, t) ==
    IF item.TTL = <<>> THEN TRUE
    ELSE t - item.CreatedAt <= item.TTL[1]

isItemValid(item, t) ==
    IF item.TTL = <<>> THEN TRUE
    ELSE t - item.CreatedAt < item.TTL[1]

\* A variant for C21: an entry removed with its size left in the total.
removeItemByKeyKeepSize(cs0, key) ==
    The({ IF key \in DOMAIN cs.items
          THEN [items |-> [k \in DOMAIN cs.items \ {key} |-> cs.items[k]],
                nodes |-> removeNode(cs.nodes, cs.items[key].Node),
                sizeBytes |-> cs.sizeBytes,
                hs |-> removeExpirationEntry(cs.hs, key)]
          ELSE cs
          : cs \in {cs0} })

removeItemByKey(cs0, key) ==
    The({ IF key \in DOMAIN cs.items
          THEN [items |-> [k \in DOMAIN cs.items \ {key} |-> cs.items[k]],
                nodes |-> removeNode(cs.nodes, cs.items[key].Node),
                sizeBytes |-> cs.sizeBytes - cs.items[key].Size,
                hs |-> removeExpirationEntry(cs.hs, key)]
          ELSE cs
          : cs \in {cs0} })

\* A variant for C36: an eviction that takes the oldest expired entry
\* when there is one, and the oldest entry otherwise.
removeOldestItemExpiredFirst(cs0) ==
    The({ IF \E k \in DOMAIN cs.items : ~isItemValid(cs.items[k], now)
          THEN removeItemByKey(
                   cs,
                   SelectSeq(listKeys(cs.nodes),
                             LAMBDA x : x \in DOMAIN cs.items
                                        /\ ~isItemValid(cs.items[x], now))[1])
          ELSE IF isEmpty(cs.nodes) THEN cs
          ELSE removeItemByKey(
                   [cs EXCEPT !.nodes =
                                 removeNode(cs.nodes, cs.nodes[head].next)],
                   cs.nodes[cs.nodes[head].next].key)
          : cs \in {cs0} })

\* removeHead unlinks the oldest node; removeItemByKey unlinks it again.
removeOldestItem(cs0) ==
    The({ IF isEmpty(cs.nodes) THEN cs
          ELSE removeItemByKey(
                   [cs EXCEPT !.nodes =
                                 removeNode(cs.nodes, cs.nodes[head].next)],
                   cs.nodes[cs.nodes[head].next].key)
          : cs \in {cs0} })

\* A variant for C19: an insert that stores the entry and leaves its node
\* out of the recency list.
updateOrAddItemUnlinked(cs0, key, item) ==
    The({ IF key \in DOMAIN cs.items
          THEN [cs EXCEPT
                  !.nodes = moveToTail(cs.nodes, cs.items[key].Node),
                  !.items = [cs.items EXCEPT
                               ![key] = [@ EXCEPT !.Value = item.Value,
                                                  !.TTL = item.TTL,
                                                  !.CreatedAt = item.CreatedAt,
                                                  !.Size = item.Size]]]
          ELSE [cs EXCEPT
                  !.nodes = [cs.nodes EXCEPT ![key] = newNode(key)],
                  !.items = [k \in DOMAIN cs.items \cup {key} |->
                               IF k = key THEN [item EXCEPT !.Node = key]
                               ELSE cs.items[k]]]
          : cs \in {cs0} })

\* A variant for C11: an update that keeps the creation time stored before.
updateOrAddItemKeepCreatedAt(cs0, key, item) ==
    The({ IF key \in DOMAIN cs.items
          THEN [cs EXCEPT
                  !.nodes = moveToTail(cs.nodes, cs.items[key].Node),
                  !.items = [cs.items EXCEPT
                               ![key] = [@ EXCEPT !.Value = item.Value,
                                                  !.TTL = item.TTL,
                                                  !.Size = item.Size]]]
          ELSE [cs EXCEPT
                  !.nodes = addToTail([cs.nodes EXCEPT ![key] = newNode(key)],
                                      key),
                  !.items = [k \in DOMAIN cs.items \cup {key} |->
                               IF k = key THEN [item EXCEPT !.Node = key]
                               ELSE cs.items[k]]]
          : cs \in {cs0} })

\* A variant for C27: an update that leaves the key where it is in the
\* recency list.
updateOrAddItemInPlace(cs0, key, item) ==
    The({ IF key \in DOMAIN cs.items
          THEN [cs EXCEPT
                  !.items = [cs.items EXCEPT
                               ![key] = [@ EXCEPT !.Value = item.Value,
                                                  !.TTL = item.TTL,
                                                  !.CreatedAt = item.CreatedAt,
                                                  !.Size = item.Size]]]
          ELSE [cs EXCEPT
                  !.nodes = addToTail([cs.nodes EXCEPT ![key] = newNode(key)],
                                      key),
                  !.items = [k \in DOMAIN cs.items \cup {key} |->
                               IF k = key THEN [item EXCEPT !.Node = key]
                               ELSE cs.items[k]]]
          : cs \in {cs0} })

\* A variant for C6: an update that keeps the value stored before.
updateOrAddItemStale(cs0, key, item) ==
    The({ IF key \in DOMAIN cs.items
          THEN [cs EXCEPT
                  !.nodes = moveToTail(cs.nodes, cs.items[key].Node),
                  !.items = [cs.items EXCEPT
                               ![key] = [@ EXCEPT !.TTL = item.TTL,
                                                  !.CreatedAt = item.CreatedAt,
                                                  !.Size = item.Size]]]
          ELSE [cs EXCEPT
                  !.nodes = addToTail([cs.nodes EXCEPT ![key] = newNode(key)],
                                      key),
                  !.items = [k \in DOMAIN cs.items \cup {key} |->
                               IF k = key THEN [item EXCEPT !.Node = key]
                               ELSE cs.items[k]]]
          : cs \in {cs0} })

updateOrAddItem(cs0, key, item) ==
    The({ IF key \in DOMAIN cs.items
          THEN [cs EXCEPT
                  !.nodes = moveToTail(cs.nodes, cs.items[key].Node),
                  !.items = [cs.items EXCEPT
                               ![key] = [@ EXCEPT !.Value = item.Value,
                                                  !.TTL = item.TTL,
                                                  !.CreatedAt = item.CreatedAt,
                                                  !.Size = item.Size]]]
          ELSE [cs EXCEPT
                  !.nodes = addToTail([cs.nodes EXCEPT ![key] = newNode(key)],
                                      key),
                  !.items = [k \in DOMAIN cs.items \cup {key} |->
                               IF k = key THEN [item EXCEPT !.Node = key]
                               ELSE cs.items[k]]]
          : cs \in {cs0} })

\* A variant for C4: a loop that lets the count pass maxItems by one.
overLimitStrict(newTotalSize, count) ==
    \/ size # <<>> /\ newTotalSize > size[1]
    \/ maxItems # <<>> /\ count > maxItems[1]

\* A variant for C5: a loop that looks at the count alone.
overLimitCountOnly(newTotalSize, count) ==
    maxItems # <<>> /\ count >= maxItems[1]

\* A variant for C22: a loop that takes a bound that is not configured
\* (nil) for a bound of zero.
overLimitNilIsZero(newTotalSize, count) ==
    \/ newTotalSize > (IF size = <<>> THEN 0 ELSE size[1])
    \/ count >= (IF maxItems = <<>> THEN 0 ELSE maxItems[1])

\* The condition of both eviction loops.
overLimit(newTotalSize, count) ==
    \/ size # <<>> /\ newTotalSize > size[1]
    \/ maxItems # <<>> /\ count >= maxItems[1]

\* A variant for C26: an update loop that always evicts the oldest entry.
evictOneForUpdateOldest(cs0, key) == removeOldestItem(cs0)

\* The victim of one round of the eviction loop of an update of key.
evictOneForUpdate(cs0, key) ==
    The({ IF cs.nodes[cs.nodes[head].next].key = key
          THEN IF cs.nodes[cs.nodes[head].next].next # tail
               THEN removeItemByKey(
                        cs, cs.nodes[cs.nodes[cs.nodes[head].next].next].key)
               ELSE cs
          ELSE removeOldestItem(cs)
          : cs \in {cs0} })

\* The eviction loop of an update of key (its old entry has oldSize).
RECURSIVE evictForUpdate(_, _, _, _, _)
evictForUpdate(cs0, key, oldSize, itemSize, fuel) ==
    The({ IF fuel = 0
             \/ ~overLimit(cs.sizeBytes - oldSize + itemSize,
                           Cardinality(DOMAIN cs.items))
          THEN cs
          ELSE IF listSize(cs.nodes) <= 1 THEN cs
          ELSE evictForUpdate(evictOneForUpdate(cs, key), key, oldSize,
                              itemSize, fuel - 1)
          : cs \in {cs0} })

\* The eviction loop of an insert.
RECURSIVE evictForInsert(_, _, _)
evictForInsert(cs0, itemSize, fuel) ==
    The({ IF fuel = 0
             \/ ~overLimit(cs.sizeBytes + itemSize,
                           Cardinality(DOMAIN cs.items))
          THEN cs
          ELSE IF isEmpty(cs.nodes) THEN cs
          ELSE evictForInsert(removeOldestItem(cs), itemSize, fuel - 1)
          : cs \in {cs0} })

\* A variant for C28: an update that runs no eviction loop.
makeRoomInsertOnly(cs0, key, itemSize) ==
    The({ IF key \in DOMAIN cs.items
          THEN [cs EXCEPT !.sizeBytes =
                             cs.sizeBytes - cs.items[key].Size + itemSize]
          ELSE The({ [e EXCEPT !.sizeBytes = e.sizeBytes + itemSize]
                     : e \in {evictForInsert(cs, itemSize, MaxKeys + 1)} })
          : cs \in {cs0} })

\* A variant for C37: an insert that runs no eviction loop.
makeRoomUpdateOnly(cs0, key, itemSize) ==
    The({ IF key \in DOMAIN cs.items
          THEN The({ [e EXCEPT !.sizeBytes =
                                  e.sizeBytes - cs.items[key].Size + itemSize]
                     : e \in {evictForUpdate(cs, key, cs.items[key].Size,
                                             itemSize, MaxKeys + 1)} })
          ELSE [cs EXCEPT !.sizeBytes = cs.sizeBytes + itemSize]
          : cs \in {cs0} })

\* The eviction of setItem and its c.sizeBytes = newTotalSize.
makeRoom(cs0, key, itemSize) ==
    The({ IF key \in DOMAIN cs.items
          THEN The({ [e EXCEPT !.sizeBytes =
                                  e.sizeBytes - cs.items[key].Size + itemSize]
                     : e \in {evictForUpdate(cs, key, cs.items[key].Size,
                                             itemSize, MaxKeys + 1)} })
          ELSE The({ [e EXCEPT !.sizeBytes = e.sizeBytes + itemSize]
                     : e \in {evictForInsert(cs, itemSize, MaxKeys + 1)} })
          : cs \in {cs0} })

\* A variant for C3: a TTL of zero taken for a TTL.
manageExpirationZero(cs0, key, ttl, t) ==
    The({ IF ttl = <<>> THEN cs
          ELSE IF ttl[1] >= 0
          THEN [cs EXCEPT
                  !.hs = addExpirationEntry(cs.hs, key, t + ttl[1])]
          ELSE removeItemByKey(cs, key)
          : cs \in {cs0} })

\* The last step of setItem: the expiration queue for a TTL.
manageExpiration(cs0, key, ttl, t) ==
    The({ IF ttl = <<>> THEN cs
          ELSE IF ttl[1] > 0
          THEN [cs EXCEPT
                  !.hs = addExpirationEntry(cs.hs, key, t + ttl[1])]
          ELSE removeItemByKey(cs, key)
          : cs \in {cs0} })

\* A variant for C24: a nil value taken for the removal of the key.
setItemNilDeletes(cs0, key, value, ttl, t) ==
    IF value = <<>>
    THEN removeItemByKey(cs0, key)
    ELSE manageExpiration(
             updateOrAddItem(
                 makeRoom(cs0, key, fastCalculateItemSize(key, value)),
                 key,
                 [Value |-> value, TTL |-> ttl, CreatedAt |-> t,
                  Size |-> fastCalculateItemSize(key, value),
                  Node |-> nilNode]),
             key, ttl, t)

\* A variant for C29: an entry larger than size is not stored at all.
setItemRejectOversize(cs0, key, value, ttl, t) ==
    IF size # <<>> /\ fastCalculateItemSize(key, value) > size[1]
    THEN cs0
    ELSE manageExpiration(
             updateOrAddItem(
                 makeRoom(cs0, key, fastCalculateItemSize(key, value)),
                 key,
                 [Value |-> value, TTL |-> ttl, CreatedAt |-> t,
                  Size |-> fastCalculateItemSize(key, value),
                  Node |-> nilNode]),
             key, ttl, t)

\* setItem; ttl is <<>> (nil) or <<d>>, t the instant of the call.
setItem(cs0, key, value, ttl, t) ==
    manageExpiration(
        updateOrAddItem(
            makeRoom(cs0, key, fastCalculateItemSize(key, value)),
            key,
            [Value |-> value, TTL |-> ttl, CreatedAt |-> t,
             Size |-> fastCalculateItemSize(key, value), Node |-> nilNode]),
        key, ttl, t)

\* A variant for C1: a sweep that trusts the heap and removes the entry
\* of every key it pops.
cleanupOneUnchecked(cs0, t) ==
    The({ The({ IF cs.hs.q[1].key \in DOMAIN cs1.items
                THEN removeItemByKey(cs1, cs.hs.q[1].key)
                ELSE cs1
                : cs1 \in {[cs EXCEPT !.hs =
                              The({ [q |-> popped.q,
                                     m |-> mapDelete(popped.m,
                                                     cs.hs.q[1].key)]
                                    : popped \in {heapPop(cs.hs)} })]} })
          : cs \in {cs0} })

\* One round of the loop of cleanupExpiredItems: the root is popped and
\* its key leaves expirationMap; its entry leaves the store if expired.
cleanupOne(cs0, t) ==
    The({ The({ IF cs.hs.q[1].key \in DOMAIN cs1.items
                   /\ ~isItemValid(cs1.items[cs.hs.q[1].key], t)
                THEN removeItemByKey(cs1, cs.hs.q[1].key)
                ELSE cs1
                : cs1 \in {[cs EXCEPT !.hs =
                              The({ [q |-> popped.q,
                                     m |-> mapDelete(popped.m,
                                                     cs.hs.q[1].key)]
                                    : popped \in {heapPop(cs.hs)} })]} })
          : cs \in {cs0} })

\* A variant for C31: a sweep that pops every slot of the heap, whatever
\* its expiry.
RECURSIVE cleanupExpiredItemsDrain(_, _)
cleanupExpiredItemsDrain(cs0, t) ==
    The({ IF Len(cs.hs.q) = 0 THEN cs
          ELSE cleanupExpiredItemsDrain(cleanupOne(cs, t), t)
          : cs \in {cs0} })

\* cleanupExpiredItems at instant t.
RECURSIVE cleanupExpiredItems(_, _)
cleanupExpiredItems(cs0, t) ==
    The({ IF Len(cs.hs.q) = 0 THEN cs
          ELSE IF cs.hs.q[1].expireTime > t THEN cs
          ELSE cleanupExpiredItems(cleanupOne(cs, t), t)
          : cs \in {cs0} })

\* ------------------------------------------------------------ the actions
emptyMap == [k \in {} |-> 0]

State == [items |-> items, nodes |-> nodes, sizeBytes |-> sizeBytes,
          hs |-> [q |-> expirationQueue, m |-> expirationMap]]

\* The state the method leaves behind it.
Becomes(cs) ==
    /\ items' = cs.items
    /\ nodes' = collect(cs.nodes, cs.items)
    /\ sizeBytes' = cs.sizeBytes
    /\ expirationQueue' = cs.hs.q
    /\ expirationMap' = cs.hs.m

\* The record of a call: the method, its key argument (0 when it has none),
\* what it returned (<<>> when it returns nothing) and the keys the call
\* took out of the store.
Call(op, key, ret, after) ==
    [op |-> op, key |-> key, ret |-> ret,
     removed |-> (DOMAIN items) \ (DOMAIN after)]

\* The caller's run of Sets of distinct keys into the empty cache.
notARun == <<0>>

runAfterSet(run, key) ==
    IF run # notARun /\ \A i \in 1..Len(run) : run[i] # key
    THEN Append(run, key)
    ELSE notARun

\* The state New leaves behind it, for a configuration drawn from the
\* given choices; the goroutine of New is waiting in its select.
New(maxItemsChoices, sizeChoices) ==
    /\ maxItems \in maxItemsChoices
    /\ size \in sizeChoices
    /\ items = emptyMap
    /\ nodes = InitNodes
    /\ sizeBytes = 0
    /\ expirationQueue = <<>>
    /\ expirationMap = emptyMap
    /\ now = 0
    /\ stopChan = "open"
    /\ tickPending = FALSE
    /\ sweeper = "running"
    /\ panicked = FALSE
    /\ last = [op |-> "New", key |-> 0, ret |-> <<>>, removed |-> {}]
    /\ inserted = <<>>
    /\ mu = unlocked
    /\ calls = [c \in Goroutines |-> idle]
    /\ own = <<>>

Set(key, value) ==
    /\ ~panicked
    /\ \E cs \in {setItem(State, key, value, <<>>, now)} :
          /\ Becomes(cs)
          /\ last' = Call("Set", key, <<>>, cs.items)
    /\ inserted' = runAfterSet(inserted, key)
    /\ UNCHANGED <<configVars, callerVars, now, sweeperVars>>

\* The body of SetWithTTL after setItem.
replaceExpiration(hs0, key, ttl, t) ==
    IF ttl > 0
    THEN addExpirationEntry(removeExpirationEntry(hs0, key), key, t + ttl)
    ELSE removeExpirationEntry(hs0, key)

setWithTTL(cs0, key, value, ttl, t) ==
    The({ [cs1 EXCEPT !.hs = replaceExpiration(cs1.hs, key, ttl, t)]
          : cs1 \in {setItem(cs0, key, value, <<ttl>>, t)} })

SetWithTTL(key, value, ttl) ==
    /\ ~panicked
    /\ ttl > 0 => Len(expirationQueue) < MaxHeap
    /\ \E cs \in {setWithTTL(State, key, value, ttl, now)} :
          /\ Becomes(cs)
          /\ last' = Call("SetWithTTL", key, <<>>, cs.items)
    /\ inserted' = notARun
    /\ UNCHANGED <<configVars, callerVars, now, sweeperVars>>

\* What Get(key) returns at instant t.
get(its, key, t) ==
    IF key \in DOMAIN its /\ isItemValid(its[key], t)
    THEN <<its[key].Value, TRUE>>
    ELSE <<<<>>, FALSE>>

\* A variant for C7: a Get that makes the key it finds the most recent.
GetPromoting(key) ==
    /\ ~panicked
    /\ last' = Call("Get", key, get(items, key, now), items)
    /\ nodes' = IF key \in DOMAIN items
                THEN moveToTail(nodes, items[key].Node)
                ELSE nodes
    /\ UNCHANGED <<configVars, callerVars, items, sizeBytes, expirationQueue,
                   expirationMap, now, sweeperVars, inserted>>

\* A variant for C23: a Get that removes the expired entry it comes upon.
GetExpiring(key) ==
    /\ ~panicked
    /\ \E cs \in {IF key \in DOMAIN items /\ ~isItemValid(items[key], now)
                  THEN removeItemByKey(State, key)
                  ELSE State} :
          Becomes(cs)
    /\ last' = Call("Get", key, get(items, key, now), items)
    /\ UNCHANGED <<configVars, callerVars, now, sweeperVars, inserted>>

Get(key) ==
    /\ ~panicked
    /\ last' = Call("Get", key, get(items, key, now), items)
    /\ UNCHANGED <<configVars, callerVars, cacheVars, now, sweeperVars, inserted>>

delete(cs, key) ==
    IF key \in DOMAIN cs.items
    THEN [items |-> [k \in DOMAIN cs.items \ {key} |-> cs.items[k]],
          nodes |-> removeNode(cs.nodes, cs.items[key].Node),
          sizeBytes |-> cs.sizeBytes - cs.items[key].Size,
          hs |-> removeExpirationEntry(cs.hs, key)]
    ELSE cs

Delete(key) ==
    /\ ~panicked
    /\ \E cs \in {delete(State, key)} :
          /\ Becomes(cs)
          /\ last' = Call("Delete", key, <<>>, cs.items)
    /\ inserted' = notARun
    /\ UNCHANGED <<configVars, callerVars, now, sweeperVars>>

\* What Len() returns.
LenOf(its) == Cardinality(DOMAIN its)

\* A variant for C10: a Clear that leaves the expiration heap as it is.
clearKeepingHeap(cs) ==
    [items |-> emptyMap,
     nodes |-> [cs.nodes EXCEPT ![head].next = tail, ![tail].prev = head],
     sizeBytes |-> 0,
     hs |-> cs.hs]

clear(cs) ==
    [items |-> emptyMap,
     nodes |-> [cs.nodes EXCEPT ![head].next = tail, ![tail].prev = head],
     sizeBytes |-> 0,
     hs |-> [q |-> <<>>, m |-> emptyMap]]

Clear ==
    /\ ~panicked
    /\ \E cs \in {clear(State)} :
          /\ Becomes(cs)
          /\ last' = Call("Clear", 0, <<>>, cs.items)
    /\ inserted' = <<>>
    /\ UNCHANGED <<configVars, callerVars, now, sweeperVars>>

CleanupExpired ==
    /\ ~panicked
    /\ \E cs \in {cleanupExpiredItems(State, now)} :
          /\ Becomes(cs)
          /\ last' = Call("CleanupExpired", 0, <<>>, cs.items)
    /\ inserted' = notARun
    /\ UNCHANGED <<configVars, callerVars, now, sweeperVars>>

\* A variant for C14: a Close that releases the stored entries as well.
CloseReleasing ==
    /\ ~panicked
    /\ IF stopChan = "closed"
       THEN /\ panicked' = TRUE
            /\ now' = 0
            /\ tickPending' = FALSE
            /\ sweeper' = "stopped"
            /\ UNCHANGED stopChan
       ELSE /\ stopChan' = "closed"
            /\ UNCHANGED <<now, tickPending, sweeper, panicked>>
    /\ Becomes(clear(State))
    /\ inserted' = notARun
    /\ last' = Call("Close", 0, <<>>, items)
    /\ UNCHANGED <<configVars, callerVars>>

\* close(c.stopChan) panics when the channel is already closed: the
\* process dies and its whole state with it.  Otherwise the channel is
\* closed; cleanupTicker.Stop() leaves a tick that is already delivered
\* (buffered in the channel, or taken by the goroutine, which has not yet
\* locked c.mu).
Close ==
    /\ ~panicked
    /\ IF stopChan = "closed"
       THEN /\ panicked' = TRUE
            /\ Becomes(clear(State))
            /\ now' = 0
            /\ tickPending' = FALSE
            /\ sweeper' = "stopped"
            /\ inserted' = notARun
            /\ UNCHANGED stopChan
       ELSE /\ stopChan' = "closed"
            /\ UNCHANGED <<cacheVars, now, tickPending, sweeper, panicked,
                           inserted>>
    /\ last' = Call("Close", 0, <<>>, items)
    /\ UNCHANGED <<configVars, callerVars>>

\* The clock advances.
Tick ==
    /\ ~panicked
    /\ now < MaxTime
    /\ now' = now + 1
    /\ last' = Call("Tick", 0, <<>>, items)
    /\ UNCHANGED <<configVars, callerVars, cacheVars, sweeperVars, inserted>>

\* cleanupTicker delivers a tick into its channel of capacity one.
TickerFire ==
    /\ ~panicked
    /\ stopChan = "open"
    /\ ~tickPending
    /\ tickPending' = TRUE
    /\ UNCHANGED <<configVars, callerVars, cacheVars, now, stopChan, sweeper, panicked,
                   last, inserted>>

\* A variant for C33: a goroutine that takes the tick and does not sweep.
SweeperTickIdle ==
    /\ ~panicked
    /\ sweeper = "running"
    /\ tickPending
    /\ tickPending' = FALSE
    /\ last' = Call("sweep", 0, <<>>, items)
    /\ inserted' = notARun
    /\ UNCHANGED <<configVars, callerVars, cacheVars, now, stopChan, sweeper,
                   panicked>>

\* The goroutine of New takes the case <-c.cleanupTicker.C.
SweeperTick ==
    /\ ~panicked
    /\ sweeper = "running"
    /\ tickPending
    /\ tickPending' = FALSE
    /\ \E cs \in {cleanupExpiredItems(State, now)} :
          /\ Becomes(cs)
          /\ last' = Call("sweep", 0, <<>>, cs.items)
    /\ inserted' = notARun
    /\ UNCHANGED <<configVars, callerVars, now, stopChan, sweeper, panicked>>

\* A variant for C34: a goroutine that takes the stop case, stops the
\* ticker and goes round its loop again.
SweeperStopNoReturn ==
    /\ ~panicked
    /\ sweeper = "running"
    /\ stopChan = "closed"
    /\ tickPending' = FALSE
    /\ UNCHANGED <<configVars, callerVars, cacheVars, now, stopChan, sweeper,
                   panicked, last, inserted>>

\* The goroutine of New takes the case <-c.stopChan.
SweeperStop ==
    /\ ~panicked
    /\ sweeper = "running"
    /\ stopChan = "closed"
    /\ sweeper' = "stopped"
    /\ UNCHANGED <<configVars, callerVars, cacheVars, now, stopChan, tickPending,
                   panicked, last, inserted>>

\* ------------------------------------------- the methods, step by step
\* A variant for C18: a Lock that does not wait.
canLockAlways(m) == TRUE

\* A variant for C16: an RLock that does not wait for the writer.
canRLockAlways(m) == TRUE

\* c.mu.Lock() returns when no writer and no reader holds the lock,
\* c.mu.RLock() when no writer holds it.
canLock(m) == ~m.writer /\ m.readers = 0

canRLock(m) == ~m.writer

WriteOps == {"Set", "SetWithTTL", "Delete", "Clear", "CleanupExpired"}

\* The state the method op leaves when it returns.
apply(cs, op, key, value, ttl, t) ==
    CASE op = "Set" -> setItem(cs, key, value, <<>>, t)
      [] op = "SetWithTTL" -> setWithTTL(cs, key, value, ttl, t)
      [] op = "Delete" -> delete(cs, key)
      [] op = "Clear" -> clear(cs)
      [] OTHER -> cleanupExpiredItems(cs, t)

\* A state in the middle of the method op, between two of its writes:
\* setItem after its eviction loop and c.sizeBytes = newTotalSize, before
\* updateOrAddItem; Delete after delete(c.items, key), before removeNode;
\* Clear after c.sizeBytes = 0, before the list is reset;
\* cleanupExpiredItems after its first delete(c.expirationMap, entry.key),
\* before the entry is looked up.
midway(cs0, op, key, value, t) ==
    The({ CASE op \in {"Set", "SetWithTTL"} ->
                 makeRoom(cs, key, fastCalculateItemSize(key, value))
            [] op = "Delete" ->
                 IF key \in DOMAIN cs.items
                 THEN [cs EXCEPT
                         !.sizeBytes = cs.sizeBytes - cs.items[key].Size,
                         !.items = [k \in DOMAIN cs.items \ {key} |->
                                      cs.items[k]]]
                 ELSE cs
            [] op = "Clear" -> [clear(cs) EXCEPT !.nodes = cs.nodes]
            [] OTHER ->
                 IF Len(cs.hs.q) > 0 /\ cs.hs.q[1].expireTime <= t
                 THEN [cs EXCEPT !.hs =
                         The({ [q |-> popped.q,
                                m |-> mapDelete(popped.m, cs.hs.q[1].key)]
                               : popped \in {heapPop(cs.hs)} })]
                 ELSE cs
          : cs \in {cs0} })

\* The fields as the method has written them so far.
Holds(cs) ==
    /\ items' = cs.items
    /\ nodes' = cs.nodes
    /\ sizeBytes' = cs.sizeBytes
    /\ expirationQueue' = cs.hs.q
    /\ expirationMap' = cs.hs.m

\* What caller 1 wrote last, after goroutine c has entered the method op.
ownAfter(c, op, key, value, ttl) ==
    IF c = 1
    THEN CASE op = "Set" -> <<key, value, <<>>, now>>
           [] op = "SetWithTTL" /\ ttl > 0 -> <<key, value, <<ttl>>, now>>
           [] op = "Clear" -> <<>>
           [] op \in {"SetWithTTL", "Delete"} /\ own # <<>> /\ own[1] = key
                -> <<>>
           [] OTHER -> own
    ELSE CASE op = "Clear" -> <<>>
           [] op \in {"Set", "SetWithTTL", "Delete"} /\ own # <<>>
                /\ own[1] = key -> <<>>
           [] OTHER -> own

\* Caller c enters a writing method: c.mu.Lock() returns and the method
\* runs up to the middle of its writes.
Lock(c, op, key, value, ttl) ==
    /\ ~panicked
    /\ calls[c] = idle
    /\ canLock(mu)
    /\ (op = "SetWithTTL" /\ ttl > 0) => Len(expirationQueue) < MaxHeap
    /\ mu' = [mu EXCEPT !.writer = TRUE]
    /\ calls' = [calls EXCEPT ![c] =
                   [at |-> "writing", op |-> op, key |-> key,
                    after |-> apply(State, op, key, value, ttl, now)]]
    /\ \E mid \in {midway(State, op, key, value, now)} : Holds(mid)
    /\ own' = ownAfter(c, op, key, value, ttl)
    /\ UNCHANGED <<configVars, now, sweeperVars, last, inserted>>

\* The goroutine of New takes the case <-c.cleanupTicker.C and enters
\* cleanupExpiredItems.
SweeperLock ==
    /\ ~panicked
    /\ sweeper = "running"
    /\ tickPending
    /\ calls[theSweeper] = idle
    /\ canLock(mu)
    /\ tickPending' = FALSE
    /\ mu' = [mu EXCEPT !.writer = TRUE]
    /\ calls' = [calls EXCEPT ![theSweeper] =
                   [at |-> "writing", op |-> "sweep", key |-> 0,
                    after |-> cleanupExpiredItems(State, now)]]
    /\ \E mid \in {midway(State, "sweep", 0, <<>>, now)} : Holds(mid)
    /\ UNCHANGED <<configVars, now, stopChan, sweeper, panicked, last,
                   inserted, own>>

\* The writing method of goroutine c finishes its writes and returns
\* through its deferred c.mu.Unlock().
Unlock(c) ==
    /\ ~panicked
    /\ calls[c].at = "writing"
    /\ Becomes(calls[c].after)
    /\ mu' = [mu EXCEPT !.writer = FALSE]
    /\ calls' = [calls EXCEPT ![c] = idle]
    /\ inserted' = notARun
    /\ UNCHANGED <<configVars, now, sweeperVars, last, own>>

\* Caller c enters Get(key), or Len() for key = 0: c.mu.RLock() returns.
RLock(c, key) ==
    /\ ~panicked
    /\ calls[c] = idle
    /\ canRLock(mu)
    /\ mu' = [mu EXCEPT !.readers = @ + 1]
    /\ calls' = [calls EXCEPT ![c] = [at |-> "reading", key |-> key]]
    /\ UNCHANGED <<configVars, cacheVars, now, sweeperVars, last, inserted,
                   own>>

\* Get or Len of caller c reads the store and returns through its deferred
\* c.mu.RUnlock().
RUnlock(c) ==
    /\ ~panicked
    /\ calls[c].at = "reading"
    /\ mu' = [mu EXCEPT !.readers = @ - 1]
    /\ calls' = [calls EXCEPT ![c] = idle]
    /\ last' = IF calls[c].key = 0
               THEN [op |-> "Len", key |-> 0, ret |-> <<LenOf(items)>>,
                     removed |-> {}]
               ELSE [op |-> "Get", key |-> calls[c].key,
                     ret |-> get(items, calls[c].key, now), removed |-> {}]
    /\ UNCHANGED <<configVars, cacheVars, now, sweeperVars, inserted, own>>

\* ----------------------------------------------------- the specifications
\* The whole program: one caller after another, the clock, the ticker, the
\* goroutine of New and Close, on the keys of KeysTTL and non-nil values,
\* unbounded or bounded to one item.
KeysTTL == 1..(MaxKeys - 1)
ValuesTTL == {<<v>> : v \in 1..MaxVal}

Next ==
    \/ \E key \in KeysTTL, value \in ValuesTTL : Set(key, value)
    \/ \E key \in KeysTTL, value \in ValuesTTL, ttl \in TTLs :
          SetWithTTL(key, value, ttl)
    \/ \E key \in KeysTTL : Get(key)
    \/ \E key \in KeysTTL : Delete(key)
    \/ Clear
    \/ CleanupExpired
    \/ Close
    \/ Tick
    \/ TickerFire
    \/ SweeperTick
    \/ SweeperStop

Spec == New({<<>>, <<1>>}, {<<>>}) /\ [][Next]_vars

\* The callers alone, within one instant of the clock, on every key and
\* value and under every configuration of the two bounds.
TTLsEvict == (0 - 1)..(MaxTTL - 1)

NextEvict ==
    \/ \E key \in Keys, value \in Values : Set(key, value)
    \/ \E key \in Keys, value \in Values, ttl \in TTLsEvict :
          SetWithTTL(key, value, ttl)
    \/ \E key \in Keys : Get(key)
    \/ \E key \in Keys : Delete(key)
    \/ Clear

SpecEvict == New(MaxItemsChoices, SizeChoices) /\ [][NextEvict]_vars

\* The callers side by side with the goroutine of New, every method in two
\* steps around its lock, on the keys of KeysTTL, unbounded or bounded to
\* one item.
TTLsConc == 0..1

NextConc ==
    \/ \E c \in Callers, op \in WriteOps, key \in KeysTTL, value \in ValuesTTL,
          ttl \in TTLsConc :
          /\ op \in {"Clear", "CleanupExpired"} => key = 1
          /\ Lock(c, op, IF op \in {"Clear", "CleanupExpired"} THEN 0
                         ELSE key, value, ttl)
    \/ \E c \in Goroutines : Unlock(c)
    \/ \E c \in Callers, key \in {0} \cup KeysTTL : RLock(c, key)
    \/ \E c \in Callers : RUnlock(c)
    \/ SweeperLock
    \/ TickerFire
    \/ now = 0 /\ Tick

SpecConc == New({<<>>, <<1>>}, {<<>>}) /\ [][NextConc]_vars

\* The callers without CleanupExpired, the clock, the ticker and the
\* goroutine of New, which is scheduled: a tick that is due is delivered,
\* and a case of the select that stays ready is taken.
TTLsLive == 1..MaxTTL

NextLive ==
    \/ \E key \in KeysTTL, value \in ValuesTTL : Set(key, value)
    \/ \E key \in KeysTTL, value \in ValuesTTL, ttl \in TTLsLive :
          SetWithTTL(key, value, ttl)
    \/ \E key \in KeysTTL : Get(key)
    \/ \E key \in KeysTTL : Delete(key)
    \/ Close
    \/ Tick
    \/ TickerFire
    \/ SweeperTick
    \/ SweeperStop

SpecLive ==
    /\ New({<<>>}, {<<>>})
    /\ [][NextLive]_vars
    /\ WF_vars(TickerFire)
    /\ WF_vars(SweeperTick)
    /\ WF_vars(SweeperStop)

\* The callers and the clock on a cache with room for two entries: writes
\* of every key with and without TTL, while time passes and entries expire.
NextAged ==
    \/ \E key \in Keys, value \in ValuesTTL : Set(key, value)
    \/ \E key \in Keys, value \in ValuesTTL, ttl \in TTLsLive :
          SetWithTTL(key, value, ttl)
    \/ \E key \in Keys : Get(key)
    \/ CleanupExpired
    \/ Tick

SpecAged == New({<<2>>}, {<<>>, <<101>>}) /\ [][NextAged]_vars

\* ------------------------------------------------------------ the claims
Writes == {"Set", "SetWithTTL"}

Bounded == maxItems # <<>> \/ size # <<>>

\* The sum of the Size fields of the entries of its under the keys ks.
RECURSIVE sizeSum(_, _)
sizeSum(its, ks) ==
    IF ks = {} THEN 0
    ELSE The({ its[k].Size + sizeSum(its, ks \ {k})
               : k \in {CHOOSE x \in ks : TRUE} })

\* The keys of a sequence.
Range(seq) == {seq[i] : i \in 1..Len(seq)}

\* The step is one that the claims let take key k out of the store or
\* rewrite it: Delete(k), Clear, a write of k, a write under a capacity
\* bound (eviction), or the death of the process.
TakesOut(k) ==
    \/ last'.op = "Delete" /\ last'.key = k
    \/ last'.op = "Clear"
    \/ last'.op \in Writes /\ last'.key = k
    \/ last'.op \in Writes /\ Bounded
    \/ panicked'

\* C1: an entry Set without TTL is returned by Get, with its value, in
\* every later state, whatever time passes and whatever sweep or
\* CleanupExpired runs, until a Delete of its key, a Clear, a write of its
\* key or an eviction under a capacity bound; and Set leaves such an entry
\* also where the key held a TTL entry before.
C1_SetWithoutTTLStays ==
    [][ /\ \A k \in Keys :
             (k \in DOMAIN items /\ items[k].TTL = <<>> /\ ~TakesOut(k))
             => get(items', k, now') = <<items[k].Value, TRUE>>
        /\ \A k \in Keys, v \in Values :
             (last'.op = "Set" /\ last'.key = k /\ Set(k, v))
             => /\ k \in DOMAIN items'
                /\ items'[k].TTL = <<>>
                /\ get(items', k, now') = <<v, TRUE>>
      ]_vars

\* A sweep has just run over an entry without TTL that was written over a
\* TTL entry whose time had come.
C1_Witness ==
    /\ last.op \in {"sweep", "CleanupExpired"}
    /\ \E k \in Keys :
          /\ k \in DOMAIN items
          /\ items[k].TTL = <<>>
          /\ items[k].CreatedAt < now
          /\ get(items, k, now) = <<items[k].Value, TRUE>>
    /\ expirationQueue = <<>>
    /\ stopChan = "closed"

\* C2: an entry written by SetWithTTL(k, v, ttl > 0) at instant createdAt
\* is returned by Get, with v, at every instant before createdAt + ttl and
\* reported absent at every instant from createdAt + ttl on, until a
\* Delete, Clear, write of k or eviction; sweeps, or their absence, change
\* nothing of it.
C2_TTLEntryUntilExpiry ==
    [][ /\ \A k \in Keys :
             (k \in DOMAIN items /\ items[k].TTL # <<>> /\ ~TakesOut(k))
             => get(items', k, now') =
                   IF now' < items[k].CreatedAt + items[k].TTL[1]
                   THEN <<items[k].Value, TRUE>>
                   ELSE <<<<>>, FALSE>>
        /\ \A k \in Keys, v \in Values, ttl \in 1..MaxTTL :
             (last'.op = "SetWithTTL" /\ last'.key = k
                /\ SetWithTTL(k, v, ttl))
             => /\ k \in DOMAIN items'
                /\ items'[k].Value = v
                /\ items'[k].TTL = <<ttl>>
                /\ items'[k].CreatedAt = now
                /\ get(items', k, now') = <<v, TRUE>>
      ]_vars

\* Get has just reported absent an entry whose time has come and that is
\* still stored, the sweeper being stopped.
C2_Witness ==
    /\ last.op = "Get"
    /\ last.ret = <<<<>>, FALSE>>
    /\ last.key \in DOMAIN items
    /\ items[last.key].TTL # <<>>
    /\ now >= items[last.key].CreatedAt + items[last.key].TTL[1]
    /\ sweeper = "stopped"

\* C3: after SetWithTTL(k, v, ttl <= 0), from any state, k is absent: Get
\* reports it absent, it is neither in the store nor in the recency list,
\* and the tracked size is that of the entries that remain.
C3_NonPositiveTTLAbsent ==
    [][ \A k \in Keys, v \in Values, ttl \in (0 - 1)..0 :
          (last'.op = "SetWithTTL" /\ last'.key = k /\ SetWithTTL(k, v, ttl))
          => /\ k \notin DOMAIN items'
             /\ k \notin Range(listKeys(nodes'))
             /\ get(items', k, now') = <<<<>>, FALSE>>
             /\ sizeBytes' = sizeSum(items', DOMAIN items')
      ]_vars

\* SetWithTTL with ttl <= 0 has just taken out a key that was stored
\* (a SetWithTTL with ttl > 0 leaves its key stored).
C3_Witness ==
    /\ last.op = "SetWithTTL"
    /\ last.key \in last.removed
    /\ last.key \notin DOMAIN items
    /\ items # emptyMap

\* C4, as claimed: for every maxItems = N >= 0 (alone), after N + 1
\* distinct keys were Set one after another into the empty cache,
\* Len() <= N, the first key is absent and the other N are present.
C4_Original ==
    (maxItems # <<>> /\ size = <<>> /\ inserted # notARun
       /\ Len(inserted) = maxItems[1] + 1)
    => /\ LenOf(items) <= maxItems[1]
       /\ get(items, inserted[1], now) = <<<<>>, FALSE>>
       /\ \A i \in 2..Len(inserted) : get(items, inserted[i], now)[2]

\* C4, amended: the same for every N >= 1; with N = 0 the one key Set
\* into the empty cache stays and Len() = 1.
C4_ItemLimitEviction ==
    (maxItems # <<>> /\ size = <<>> /\ inserted # notARun
       /\ Len(inserted) = maxItems[1] + 1)
    => IF maxItems[1] >= 1
       THEN /\ LenOf(items) = maxItems[1]
            /\ get(items, inserted[1], now) = <<<<>>, FALSE>>
            /\ \A i \in 2..Len(inserted) : get(items, inserted[i], now)[2]
       ELSE /\ LenOf(items) = 1
            /\ get(items, inserted[1], now)[2]

\* With maxItems = 2, three distinct keys were Set into the empty cache.
C4_Witness ==
    /\ maxItems = <<2>>
    /\ size = <<>>
    /\ inserted # notARun
    /\ Len(inserted) = 3
    /\ last.removed = {inserted[1]}

\* C5: with maxSize = S, after every call the tracked size is <= S unless
\* the cache holds at most one entry.
C5_SizeBound ==
    size # <<>> => (sizeBytes <= size[1] \/ LenOf(items) <= 1)

\* A write under a size bound alone has just evicted and two entries remain.
C5_Witness ==
    /\ size # <<>>
    /\ maxItems = <<>>
    /\ last.op \in Writes
    /\ last.removed # {}
    /\ LenOf(items) = 2
    /\ sizeBytes <= size[1]

\* C6: after Set(k, v) or SetWithTTL(k, v, ttl > 0), under every
\* configuration, Get(k) returns (v, true).
C6_WrittenKeyPresent ==
    [][ /\ \A k \in Keys, v \in Values :
             (last'.op = "Set" /\ last'.key = k /\ Set(k, v))
             => get(items', k, now') = <<v, TRUE>>
        /\ \A k \in Keys, v \in Values, ttl \in 1..MaxTTL :
             (last'.op = "SetWithTTL" /\ last'.key = k
                /\ SetWithTTL(k, v, ttl))
             => get(items', k, now') = <<v, TRUE>>
      ]_vars

\* A write of a stored key has just evicted another key and kept its own.
C6_Witness ==
    /\ last.op \in Writes
    /\ last.removed # {}
    /\ last.key \notin last.removed
    /\ last.key \in DOMAIN items
    /\ LenOf(items) = 1
    /\ maxItems = <<2>>

C8_Original ==
    [][ \A k \in Keys, v \in Values :
          (/\ last.op = "Get"
           /\ last.ret[2]
           /\ maxItems # <<>>
           /\ size = <<>>
           /\ LenOf(items) >= 2
           /\ k \notin DOMAIN items
           /\ last'.op = "Set"
           /\ Set(k, v))
          => last.key \in DOMAIN items'
      ]_vars

\* The stored entries whose TTL has elapsed at instant t.
Expired(its, t) == {k \in DOMAIN its : ~isItemValid(its[k], t)}

\* C9, as claimed: CleanupExpired at instant now removes exactly the stored
\* entries with createdAt + ttl <= now, leaves the others as they are,
\* reports the number it removed, and Len() decreases by that number.
C9_Original ==
    [][ (last'.op = "CleanupExpired" /\ CleanupExpired)
        => /\ DOMAIN items' = (DOMAIN items) \ Expired(items, now)
           /\ \A k \in DOMAIN items' : items'[k] = items[k]
           /\ LenOf(items') = LenOf(items) - Cardinality(Expired(items, now))
           /\ last'.ret = <<Cardinality(Expired(items, now))>>
      ]_vars

\* What CleanupExpired does of C9: the removal, without the count, which
\* the method does not return.
C9_RemovesExpired ==
    [][ (last'.op = "CleanupExpired" /\ CleanupExpired)
        => /\ DOMAIN items' = (DOMAIN items) \ Expired(items, now)
           /\ \A k \in DOMAIN items' : items'[k] = items[k]
           /\ LenOf(items') = LenOf(items) - Cardinality(Expired(items, now))
           /\ last'.ret = <<>>
      ]_vars

\* C10: after Clear, the store, the expiration heap and its index are
\* empty, the tracked size is 0, the recency list holds the two sentinels
\* alone and Get reports every key absent: the cache is as New left it.
C10_ClearResets ==
    last.op = "Clear"
    => /\ items = emptyMap
       /\ sizeBytes = 0
       /\ nodes = InitNodes
       /\ expirationQueue = <<>>
       /\ expirationMap = emptyMap
       /\ LenOf(items) = 0
       /\ \A k \in Keys : get(items, k, now) = <<<<>>, FALSE>>

\* Clear has just emptied a cache that held entries.
C10_Witness ==
    /\ last.op = "Clear"
    /\ last.removed # {}
    /\ now > 0

\* The elements of the expiration heap that name key k.
slotsOf(queue, k) == {i \in 1..Len(queue) : queue[i].key = k}

\* C11: SetWithTTL on a key that holds a TTL entry replaces its expiration:
\* the entry then has the new value, the new TTL and the instant of the
\* second call as creation time; as long as that TTL has not elapsed no
\* Get, sweep or CleanupExpired takes the entry out or alters it, whatever
\* slot of the first call is still in the heap; from the end of the new TTL
\* on Get reports it absent; and a sweep removes only expired entries, each
\* once (size and recency list follow the store).
C11_TTLReplaced ==
    [][ /\ \A k \in Keys, v \in Values, ttl \in 1..MaxTTL :
             (/\ last'.op = "SetWithTTL"
              /\ last'.key = k
              /\ k \in DOMAIN items
              /\ items[k].TTL # <<>>
              /\ SetWithTTL(k, v, ttl))
             => /\ k \in DOMAIN items'
                /\ items'[k].Value = v
                /\ items'[k].TTL = <<ttl>>
                /\ items'[k].CreatedAt = now
        /\ \A k \in Keys :
             (k \in DOMAIN items /\ items[k].TTL # <<>> /\ ~TakesOut(k))
             => IF now' < items[k].CreatedAt + items[k].TTL[1]
                THEN k \in DOMAIN items' /\ items'[k] = items[k]
                ELSE get(items', k, now') = <<<<>>, FALSE>>
        /\ last'.op \in {"sweep", "CleanupExpired"}
             => /\ (DOMAIN items) \ (DOMAIN items') \subseteq Expired(items, now)
                /\ sizeBytes' = sizeSum(items', DOMAIN items')
                /\ Range(listKeys(nodes')) = DOMAIN items'
      ]_vars

\* A sweep has just popped the slot the first SetWithTTL left in the heap,
\* at the end of the first TTL, and the entry of the second SetWithTTL,
\* whose TTL runs on, is still stored.
C11_Witness ==
    /\ last.op \in {"sweep", "CleanupExpired"}
    /\ \E k \in Keys :
          /\ k \in DOMAIN items
          /\ items[k].TTL # <<>>
          /\ now < items[k].CreatedAt + items[k].TTL[1]
          /\ k \notin DOMAIN expirationMap
          /\ slotsOf(expirationQueue, k) # {}
          /\ get(items, k, now) = <<items[k].Value, TRUE>>

\* C12, as claimed: after Delete(k) of a stored key k, Get(k) reports it
\* absent, k is in neither the store nor the recency list, Len() is one
\* less, the tracked size is less by the size of the entry, and neither
\* the expiration heap nor its index holds a slot for k.
C12_Original ==
    [][ \A k \in Keys :
          (last'.op = "Delete" /\ last'.key = k /\ k \in DOMAIN items
             /\ Delete(k))
          => /\ get(items', k, now') = <<<<>>, FALSE>>
             /\ k \notin DOMAIN items'
             /\ k \notin Range(listKeys(nodes'))
             /\ LenOf(items') = LenOf(items) - 1
             /\ sizeBytes' = sizeBytes - items[k].Size
             /\ k \notin DOMAIN expirationMap'
             /\ slotsOf(expirationQueue', k) = {}
      ]_vars

\* What Delete does of C12: all of it but the heap, where only the slot
\* the index points to is removed.
C12_DeleteRemoves ==
    [][ \A k \in Keys :
          (last'.op = "Delete" /\ last'.key = k /\ k \in DOMAIN items
             /\ Delete(k))
          => /\ get(items', k, now') = <<<<>>, FALSE>>
             /\ k \notin DOMAIN items'
             /\ k \notin Range(listKeys(nodes'))
             /\ LenOf(items') = LenOf(items) - 1
             /\ sizeBytes' = sizeBytes - items[k].Size
             /\ k \notin DOMAIN expirationMap'
      ]_vars

\* C13, as claimed: Delete of a key that is not stored (never stored, or
\* deleted before) and CleanupExpired on a cache where no stored entry is
\* expired (the empty cache among them) leave store, recency list,
\* expiration heap, index and size as they were.
C13_Original ==
    [][ /\ \A k \in Keys :
             (last'.op = "Delete" /\ last'.key = k /\ k \notin DOMAIN items
                /\ Delete(k))
             => UNCHANGED cacheVars
        /\ (last'.op = "CleanupExpired" /\ Expired(items, now) = {}
              /\ CleanupExpired)
             => UNCHANGED cacheVars
      ]_vars

\* What holds of C13: Delete of a key not stored changes nothing, and
\* CleanupExpired with nothing expired changes neither store, list nor
\* size (it may pop slots of the heap).
C13_NoOps ==
    [][ /\ \A k \in Keys :
             (last'.op = "Delete" /\ last'.key = k /\ k \notin DOMAIN items
                /\ Delete(k))
             => UNCHANGED cacheVars
        /\ (last'.op = "CleanupExpired" /\ Expired(items, now) = {}
              /\ CleanupExpired)
             => UNCHANGED <<items, nodes, sizeBytes>>
      ]_vars

\* C20, as claimed: every stored key whose entry has a TTL has exactly one
\* element of the expiration heap and an index entry, and every stored key
\* whose entry has no TTL has neither.
C20_Original ==
    \A k \in DOMAIN items :
       IF items[k].TTL # <<>>
       THEN /\ Cardinality(slotsOf(expirationQueue, k)) = 1
            /\ k \in DOMAIN expirationMap
       ELSE /\ slotsOf(expirationQueue, k) = {}
            /\ k \notin DOMAIN expirationMap

\* C14: the first Close changes no stored entry (nor heap, index, list or
\* size) and closes stopChan; with stopChan closed every method still does
\* what it does before: Set and SetWithTTL store, Get returns the stored
\* value of an unexpired entry and reports an expired one absent, Delete
\* and Clear remove, Len counts, and CleanupExpired removes the expired
\* entries.
C14_CloseKeepsCache ==
    [][ /\ (last'.op = "Close" /\ stopChan = "open" /\ Close)
           => /\ UNCHANGED <<cacheVars, now>>
              /\ stopChan' = "closed"
              /\ \A k \in Keys : get(items', k, now') = get(items, k, now)
        /\ (stopChan = "closed" /\ ~panicked')
           => /\ \A k \in Keys, v \in Values :
                   (last'.op = "Set" /\ last'.key = k /\ Set(k, v))
                   => get(items', k, now') = <<v, TRUE>>
              /\ \A k \in Keys, v \in Values, ttl \in 1..MaxTTL :
                   (last'.op = "SetWithTTL" /\ last'.key = k
                      /\ SetWithTTL(k, v, ttl))
                   => get(items', k, now') = <<v, TRUE>>
              /\ \A k \in Keys :
                   (last'.op = "Get" /\ last'.key = k /\ Get(k))
                   => last'.ret =
                         IF k \in DOMAIN items /\ k \notin Expired(items, now)
                         THEN <<items[k].Value, TRUE>>
                         ELSE <<<<>>, FALSE>>
              /\ \A k \in Keys :
                   (last'.op = "Delete" /\ last'.key = k /\ Delete(k))
                   => /\ DOMAIN items' = (DOMAIN items) \ {k}
                      /\ LenOf(items') = Cardinality((DOMAIN items) \ {k})
              /\ (last'.op = "Clear" /\ Clear) => LenOf(items') = 0
              /\ (last'.op = "CleanupExpired" /\ CleanupExpired)
                   => DOMAIN items' = (DOMAIN items) \ Expired(items, now)
      ]_vars

\* After Close, with the goroutine stopped, CleanupExpired has just removed
\* an expired entry.
C14_Witness ==
    /\ stopChan = "closed"
    /\ sweeper = "stopped"
    /\ ~panicked
    /\ last.op = "CleanupExpired"
    /\ last.removed # {}

\* C15, as claimed: once Close has returned (stopChan is closed) the
\* goroutine of New starts no sweep pass, whether or not a tick was
\* buffered when Close was called.
C15_Original ==
    [][ (stopChan = "closed" /\ tickPending) => ~SweeperTick ]_vars

\* C19: after every call the store has as many entries as the recency
\* list has nodes between its sentinels, and the keys of the two are the
\* same.
C19_StoreMatchesList ==
    /\ listSize(nodes) = LenOf(items)
    /\ Len(listKeys(nodes)) = LenOf(items)
    /\ Range(listKeys(nodes)) = DOMAIN items

\* A write under a size bound has just evicted a key and put its own at
\* the tail of the list, and two keys remain.
C19_Witness ==
    /\ last.op \in Writes
    /\ last.removed # {}
    /\ last.key \notin last.removed
    /\ LenOf(items) = 2
    /\ listKeys(nodes)[2] = last.key
    /\ size # <<>>

\* The goroutines inside a writing method, and those inside Get or Len.
writing == {c \in Goroutines : calls[c].at = "writing"}

reading == {c \in Goroutines : calls[c].at = "reading"}

\* C16: under every interleaving of the callers and the sweeper, at most
\* one goroutine is inside a writing method, none is inside Get or Len
\* while one is, and whenever no goroutine is inside a writing method (so,
\* whenever a Get or Len reads) store and recency list hold the same keys
\* and the tracked size is the sum of the sizes of the stored entries.
C16_Atomic ==
    /\ Cardinality(writing) <= 1
    /\ writing # {} => reading = {}
    /\ writing = {}
       => /\ listSize(nodes) = LenOf(items)
          /\ Range(listKeys(nodes)) = DOMAIN items
          /\ sizeBytes = sizeSum(items, DOMAIN items)

\* A caller is in the middle of a writing method, where store and list or
\* size disagree, after another caller's Get has returned, with a tick of
\* the sweeper waiting.
C16_Witness ==
    /\ writing # {}
    /\ writing \subseteq Callers
    /\ \/ Range(listKeys(nodes)) # DOMAIN items
       \/ sizeBytes # sizeSum(items, DOMAIN items)
    /\ last.op = "Get"
    /\ tickPending

\* C17: with maxItems = N >= 1, whenever no goroutine is inside a writing
\* method the store holds at most N entries, and Len() never returns more
\* than N.
C17_LenWithinMaxItems ==
    (maxItems # <<>> /\ maxItems[1] >= 1)
    => /\ writing = {} => LenOf(items) <= maxItems[1]
       /\ last.op = "Len" => last.ret[1] <= maxItems[1]

\* Under maxItems = 1, Len() has just returned 1 while the other caller is
\* inside Get, after the key caller 1 wrote was evicted by the other
\* caller's write.
C17_Witness ==
    /\ maxItems = <<1>>
    /\ last.op = "Len"
    /\ last.ret = <<1>>
    /\ reading # {}
    /\ own # <<>>
    /\ own[1] \notin DOMAIN items

\* C18: when caller 1 has written k (Set, or SetWithTTL whose TTL has not
\* elapsed) and no other caller has written or deleted k or cleared the
\* cache since, its Get(k) returns the value it wrote, or, under a bound
\* only, reports k absent because k is no longer stored; without bounds it
\* returns the value it wrote.
C18_ReadYourWrite ==
    [][ (/\ calls[1].at = "reading"
         /\ own # <<>>
         /\ calls[1].key = own[1]
         /\ (own[3] = <<>> \/ now < own[4] + own[3][1])
         /\ RUnlock(1))
        => \/ last'.ret = <<own[2], TRUE>>
           \/ /\ Bounded
              /\ last'.ret = <<<<>>, FALSE>>
              /\ own[1] \notin DOMAIN items
      ]_vars

\* Without bounds, caller 1 has just read back the key it wrote with a TTL
\* while the other caller is inside a method and other keys are stored.
C18_Witness ==
    /\ ~Bounded
    /\ own # <<>>
    /\ own[3] # <<>>
    /\ last.op = "Get"
    /\ last.key = own[1]
    /\ last.ret = <<own[2], TRUE>>
    /\ calls[1] = idle
    /\ calls[2] # idle
    /\ LenOf(items) >= 2


\* C21: after every public operation (an insert, an overwrite with another
\* size, a write with a TTL of zero or less, a Delete, an eviction, a
\* Clear) the tracked total c.sizeBytes is the sum of the Size fields of
\* the stored entries, and it is never negative.
C21_SizeIsSum ==
    /\ sizeBytes = sizeSum(items, DOMAIN items)
    /\ sizeBytes >= 0

\* A SetWithTTL of a new key with a TTL of zero or less under a size bound
\* has just evicted another key to make room and then taken its own key
\* out again; one entry remains and the total is its size.
C21_Witness ==
    /\ size # <<>>
    /\ last.op = "SetWithTTL"
    /\ last.removed # {}
    /\ last.key \notin last.removed
    /\ last.key \notin DOMAIN items
    /\ LenOf(items) = 1
    /\ sizeBytes = sizeSum(items, DOMAIN items)
    /\ sizeBytes > 0

\* What a write of key k leaves alone in an unbounded cache: every other
\* entry is still stored and is the same entry, and Len() is one more
\* exactly when k was not stored.
OthersKept(k) ==
    /\ \A j \in (DOMAIN items) \ {k} :
          j \in DOMAIN items' /\ items'[j] = items[j]
    /\ LenOf(items') = LenOf(items) + (IF k \in DOMAIN items THEN 0 ELSE 1)

\* C22: with neither maxItems nor size configured (New(nil) included) the
\* cache is unbounded: no Set and no SetWithTTL with ttl > 0 on key k
\* removes or alters an entry other than k, so Len() grows by one on every
\* write of a new key.
C22_UnboundedKeepsOthers ==
    [][ \A k \in Keys, v \in Values :
          /\ (~Bounded /\ last'.op = "Set" /\ last'.key = k /\ Set(k, v))
                => OthersKept(k)
          /\ \A ttl \in 1..MaxTTL :
                (~Bounded /\ last'.op = "SetWithTTL" /\ last'.key = k
                 /\ SetWithTTL(k, v, ttl))
                   => OthersKept(k) ]_vars

\* An unbounded cache holds every key after a SetWithTTL with ttl > 0 that
\* removed nothing.
C22_Witness ==
    /\ ~Bounded
    /\ last.op = "SetWithTTL"
    /\ last.removed = {}
    /\ last.key \in DOMAIN items
    /\ items[last.key].TTL # <<>>
    /\ items[last.key].TTL[1] > 0
    /\ LenOf(items) = MaxKeys

\* The keys for which Get reports found at instant t.
Found(its, t) == {k \in DOMAIN its : get(its, k, t)[2]}

\* C23: expiry alone does not change Len(): the passing of time leaves the
\* store as it is, and an entry whose TTL has elapsed stays in the store,
\* counted by Len(), until a sweep, a CleanupExpired, a Delete, a write of
\* its key, a Clear or an eviction removes it; so Len() can be more than
\* the number of keys that Get finds.
C23_ExpiryKeepsLen ==
    [][ /\ Tick => (items' = items /\ LenOf(items') = LenOf(items))
        /\ \A k \in Expired(items, now) :
              \/ TakesOut(k)
              \/ CleanupExpired
              \/ SweeperTick
              \/ (k \in DOMAIN items' /\ items'[k] = items[k]) ]_vars

\* Time has just passed the TTL of one of two stored entries: Len() is 2
\* and Get finds one key.
C23_Witness ==
    /\ last.op = "Tick"
    /\ LenOf(items) = 2
    /\ Cardinality(Expired(items, now)) = 1
    /\ Cardinality(Found(items, now)) = 1
    /\ LenOf(items) > Cardinality(Found(items, now))

\* C24: Set(k, nil) stores an entry for k: afterwards Get(k) returns
\* (nil, true), which is not the (nil, false) of a key that is not found,
\* and Len() counts the entry.
C24_NilValueStored ==
    [][ \A k \in Keys :
          (last'.op = "Set" /\ last'.key = k /\ Set(k, <<>>))
             => /\ k \in DOMAIN items'
                /\ items'[k].Value = <<>>
                /\ get(items', k, now') = <<<<>>, TRUE>>
                /\ get(items', k, now') # get(emptyMap, k, now')
                /\ LenOf(items')
                      = Cardinality(((DOMAIN items) \ last'.removed)
                                    \cup {k}) ]_vars

\* A Set with a nil value has just been made beside another entry: its
\* key is found with the nil value and Len() is 2.
C24_Witness ==
    /\ last.op = "Set"
    /\ last.key \in DOMAIN items
    /\ items[last.key].Value = <<>>
    /\ get(items, last.key, now) = <<<<>>, TRUE>>
    /\ LenOf(items) = 2

\* C25: operating on the cache after Close does not fault or corrupt
\* state, a second call of Close included: Close on a cache that is already
\* closed returns normally and leaves all stored data unchanged.
C25_Original ==
    [][ (stopChan = "closed" /\ last'.op = "Close" /\ Close)
           => /\ ~panicked'
              /\ UNCHANGED cacheVars
              /\ \A k \in Keys : get(items', k, now') = get(items, k, now)
      ]_vars

\* The stored keys other than k, oldest first.
OthersOldestFirst(k) == SelectSeq(listKeys(nodes), LAMBDA x : x # k)

\* A bound is not met by a store of count entries and total bytes, as the
\* loops of setItem test it before the write is committed.
StillOver(total, count) ==
    \/ size # <<>> /\ total > size[1]
    \/ maxItems # <<>> /\ count >= maxItems[1]

\* C26: the eviction loop never removes the entry being written while
\* other entries remain: when a stored key k is overwritten and eviction is
\* needed, the victims are the oldest entries other than k (the second
\* oldest when k itself is the oldest), and the loop stops when k is the
\* only entry left, accepting a bound that is not met instead of evicting k.
C26_UpdateSparesKey ==
    \A k \in DOMAIN items, v \in Values :
       \A e \in {makeRoom(State, k, fastCalculateItemSize(k, v))} :
          /\ k \in DOMAIN e.items
          /\ e.items[k] = items[k]
          /\ (DOMAIN e.items) \subseteq DOMAIN items
          /\ (DOMAIN items) \ (DOMAIN e.items)
                = { OthersOldestFirst(k)[i] :
                      i \in 1..Cardinality((DOMAIN items) \ (DOMAIN e.items)) }
          /\ StillOver(e.sizeBytes, LenOf(e.items)) => DOMAIN e.items = {k}

\* The oldest of the stored keys is about to be overwritten at the item
\* limit: the loop evicts the second oldest and keeps the key.
C26_Witness ==
    /\ maxItems # <<>>
    /\ LenOf(items) >= 2
    /\ LenOf(items) >= maxItems[1]
    /\ \E k \in DOMAIN items, v \in Values :
          /\ listKeys(nodes)[1] = k
          /\ \A e \in {makeRoom(State, k, fastCalculateItemSize(k, v))} :
                /\ k \in DOMAIN e.items
                /\ listKeys(nodes)[2] \notin DOMAIN e.items

\* The keys of the recency list that are still stored after the step and
\* are not k, in the order they had before the step.
KeptInOrder(k) ==
    SelectSeq(listKeys(nodes), LAMBDA x : x # k /\ x \in DOMAIN items')

StoredAlone(k, itemSize) ==
    /\ last'.removed = DOMAIN items
    /\ DOMAIN items' = {k}
    /\ LenOf(items') = 1
    /\ items'[k].Size = itemSize
    /\ sizeBytes' = itemSize
    /\ sizeBytes' > size[1]

\* C29: the single-entry exception: a write of a new key whose own
\* estimated size is more than size evicts every stored entry and then
\* stores the new entry alone, so that Len() is 1 and the tracked size is
\* more than size; the bound stays exceeded until a later operation
\* removes that entry or makes it smaller.
C29_OversizedStoredAlone ==
    [][ /\ \A k \in Keys, v \in Values :
              /\ ( /\ size # <<>>
                   /\ k \notin DOMAIN items
                   /\ fastCalculateItemSize(k, v) > size[1]
                   /\ last'.op = "Set" /\ last'.key = k
                   /\ Set(k, v) )
                    => StoredAlone(k, fastCalculateItemSize(k, v))
              /\ \A ttl \in 1..MaxTTL :
                    ( /\ size # <<>>
                      /\ k \notin DOMAIN items
                      /\ fastCalculateItemSize(k, v) > size[1]
                      /\ last'.op = "SetWithTTL" /\ last'.key = k
                      /\ SetWithTTL(k, v, ttl) )
                       => StoredAlone(k, fastCalculateItemSize(k, v))
        /\ \A k \in Keys :
              ( /\ size # <<>>
                /\ DOMAIN items = {k}
                /\ sizeBytes > size[1]
                /\ k \in DOMAIN items'
                /\ items'[k].Size >= items[k].Size )
                 => sizeBytes' > size[1] ]_vars

\* A Set of a new key larger than size has just evicted what was stored:
\* the key is alone in the store and the tracked size is over the bound.
C29_Witness ==
    /\ size # <<>>
    /\ last.op = "Set"
    /\ last.removed # {}
    /\ DOMAIN items = {last.key}
    /\ sizeBytes = items[last.key].Size
    /\ sizeBytes > size[1]

\* The keys that the eviction of a write of k leaves out of the store e.
Evicted(e) == (DOMAIN items) \ (DOMAIN e.items)

\* C30: eviction is minimal and oldest first: the entries evicted by one
\* write are a prefix of the recency order (the written key left out), and
\* the loop stops at the first point where both configured bounds are
\* met, so no entry is evicted that did not need to be: with the last
\* victim kept, the store after the write would hold more than maxItems
\* entries or more than size bytes.
C30_Original ==
    \A k \in Keys, v \in Values :
       \A e \in {makeRoom(State, k, fastCalculateItemSize(k, v))} :
          /\ Evicted(e) = { OthersOldestFirst(k)[i] :
                              i \in 1..Cardinality(Evicted(e)) }
          /\ Evicted(e) # {}
                => \A w \in {OthersOldestFirst(k)[Cardinality(Evicted(e))]} :
                      \/ /\ size # <<>>
                         /\ e.sizeBytes + items[w].Size > size[1]
                      \/ /\ maxItems # <<>>
                         /\ Cardinality((DOMAIN e.items) \cup {k, w})
                               > maxItems[1]

\* What the loops of setItem do give: the victims are a prefix of the
\* recency order (the written key left out), and before the last victim
\* was evicted the condition of the loop held: the bytes after the write
\* were more than size, or the entries counted before the write is
\* committed were maxItems or more (for an insert that is a store of more
\* than maxItems entries after the write; for an update it is not).
C30_LoopMinimal ==
    \A k \in Keys, v \in Values :
       \A e \in {makeRoom(State, k, fastCalculateItemSize(k, v))} :
          /\ Evicted(e) = { OthersOldestFirst(k)[i] :
                              i \in 1..Cardinality(Evicted(e)) }
          /\ Evicted(e) # {}
                => \A w \in {OthersOldestFirst(k)[Cardinality(Evicted(e))]} :
                      StillOver(e.sizeBytes + items[w].Size,
                                LenOf(e.items) + 1)
          /\ StillOver(e.sizeBytes, LenOf(e.items))
                => (DOMAIN e.items) \subseteq {k}

\* The slots of the heap queue that name key k with expiry e.
slotsAt(queue, k, e) ==
    {i \in 1..Len(queue) : queue[i].key = k /\ queue[i].expireTime = e}

\* C31: a sweep pass or a CleanupExpired never removes an entry that Get
\* would return as found at that instant: an entry leaves the store only
\* if its own createdAt + TTL has elapsed, whatever slot an earlier write
\* of its key has left in the heap; entries without TTL are left as they
\* are, and so are the heap slots whose expiry is still in the future.
C31_SweepSparesLive ==
    [][ ((last'.op = "CleanupExpired" /\ CleanupExpired)
         \/ (last'.op = "sweep" /\ SweeperTick))
           => /\ \A k \in DOMAIN items :
                    (get(items, k, now)[2] \/ items[k].TTL = <<>>)
                       => /\ k \in DOMAIN items'
                          /\ items'[k] = items[k]
                          /\ k \in Range(listKeys(nodes'))
              /\ last'.removed \subseteq Expired(items, now)
              /\ \A k \in DOMAIN items' : items'[k] = items[k]
              /\ \A k \in Keys, e \in (now + 1)..(MaxTime + MaxTTL) :
                    Cardinality(slotsAt(expirationQueue', k, e))
                       = Cardinality(slotsAt(expirationQueue, k, e)) ]_vars

\* A sweep or CleanupExpired has just removed an expired entry and left
\* an entry with a TTL that Get still finds, with its slot in the heap.
C31_Witness ==
    /\ last.op \in {"CleanupExpired", "sweep"}
    /\ last.removed # {}
    /\ \E k \in DOMAIN items :
          /\ items[k].TTL # <<>>
          /\ get(items, k, now)[2]
          /\ slotsAt(expirationQueue, k, items[k].CreatedAt + items[k].TTL[1])
                # {}

\* C32: no stale expiration slots: when a TTL entry is deleted, overwritten
\* (by Set or SetWithTTL) or evicted, its old slot leaves the expiration
\* heap, so that after every operation each heap slot belongs to a stored
\* key and carries the expiry of that key's latest write, and the heap is
\* never longer than Len().
C32_Original ==
    /\ \A i \in 1..Len(expirationQueue) :
          /\ expirationQueue[i].key \in DOMAIN items
          /\ items[expirationQueue[i].key].TTL # <<>>
          /\ expirationQueue[i].expireTime
                = items[expirationQueue[i].key].CreatedAt
                     + items[expirationQueue[i].key].TTL[1]
    /\ Len(expirationQueue) <= LenOf(items)

\* Key k is not an expired entry any more, and store, recency list and
\* size agree on it.
Reclaimed(k) ==
    /\ k \notin Expired(items, now)
    /\ k \in DOMAIN items <=> k \in Range(listKeys(nodes))
    /\ sizeBytes = sizeSum(items, DOMAIN items)

\* C33: while the cache is not closed and the ticker keeps firing, every
\* entry whose TTL has elapsed is eventually removed from the store, the
\* recency list and the size count by the sweep of the goroutine, without
\* any caller calling CleanupExpired.
C33_SweepReclaims ==
    \A k \in KeysTTL :
       (stopChan = "open" /\ k \in Expired(items, now))
          ~> (stopChan = "closed" \/ Reclaimed(k))

\* The sweep of the goroutine has just removed an expired entry from the
\* open cache: the key is in neither store nor list and the size is the
\* sum of what is left.
C33_Witness ==
    /\ stopChan = "open"
    /\ last.op = "sweep"
    /\ last.removed # {}
    /\ \A k \in last.removed : Reclaimed(k) /\ k \notin DOMAIN items

\* C34: after Close the goroutine of New eventually terminates: it sees
\* the closed stopChan, makes at most a bounded number of further sweep
\* passes (no tick is delivered after Close, so at most the one that was
\* already delivered is swept), and once it has returned it never runs
\* again.
C34_SweeperTerminates ==
    /\ (stopChan = "closed") ~> (sweeper = "stopped")
    /\ [][ /\ sweeper = "stopped"
              => (sweeper' = "stopped" /\ ~SweeperTick)
           /\ (stopChan = "closed" /\ ~tickPending) => ~tickPending'
           /\ (stopChan = "closed" /\ SweeperTick) => ~tickPending'
           /\ stopChan = "closed" => stopChan' = "closed" ]_vars

\* The cache was closed with a tick delivered, the goroutine swept once
\* more and then returned.
C34_Witness ==
    /\ stopChan = "closed"
    /\ sweeper = "stopped"
    /\ ~panicked
    /\ ~tickPending
    /\ last.op = "sweep"

\* C35: SetWithTTL(k, v, ttl <= 0) on a key k that is not stored leaves the
\* cache as it is: no other entry is evicted or altered, and Len() and the
\* tracked size are what they were before the call, whatever bounds are
\* configured and however full the cache is.
C35_Original ==
    [][ \A k \in Keys, v \in Values, ttl \in (0 - 1)..0 :
          (k \notin DOMAIN items /\ last'.op = "SetWithTTL" /\ last'.key = k
             /\ SetWithTTL(k, v, ttl))
          => /\ items' = items
             /\ listKeys(nodes') = listKeys(nodes)
             /\ LenOf(items') = LenOf(items)
             /\ sizeBytes' = sizeBytes ]_vars

\* What holds of C35: the key is absent afterwards, the entries that stay
\* are unaltered and keep their order, and nothing at all changes when no
\* bound is configured or the write would have fitted (no eviction).
C35_UnchangedWithoutEviction ==
    [][ \A k \in Keys, v \in Values, ttl \in (0 - 1)..0 :
          (k \notin DOMAIN items /\ last'.op = "SetWithTTL" /\ last'.key = k
             /\ SetWithTTL(k, v, ttl))
          => /\ k \notin DOMAIN items'
             /\ \A j \in DOMAIN items' : j \in DOMAIN items
                                          /\ items'[j] = items[j]
             /\ listKeys(nodes') = KeptInOrder(k)
             /\ sizeBytes' = sizeSum(items', DOMAIN items')
             /\ (~Bounded
                 \/ ~StillOver(sizeBytes + fastCalculateItemSize(k, v),
                               LenOf(items)))
                   => (items' = items /\ sizeBytes' = sizeBytes) ]_vars

\* C36: eviction selects its victims by recency alone, never by expiry: an
\* entry whose TTL has elapsed and that is not yet reclaimed counts toward
\* maxItems and size like any other, the victims of a write are the oldest
\* entries of the recency order whether expired or not, and so a write
\* into a full cache can evict an older entry that Get still finds while
\* a newer expired entry stays in the store.
C36_EvictsByRecency ==
    \A k \in Keys, v \in ValuesTTL :
       \A e \in {makeRoom(State, k, fastCalculateItemSize(k, v))} :
          /\ Evicted(e) = { OthersOldestFirst(k)[i] :
                              i \in 1..Cardinality(Evicted(e)) }
          /\ k \notin DOMAIN items
                => (Evicted(e) # {}
                      <=> /\ items # emptyMap
                          /\ StillOver(
                                sizeSum(items, DOMAIN items)
                                   + fastCalculateItemSize(k, v),
                                LenOf(items)))

\* The cache is full, its oldest entry is one that Get finds and a newer
\* entry is expired: the write of a new key evicts the oldest and the
\* expired entry stays.
C36_Witness ==
    /\ LenOf(items) = 2
    /\ get(items, listKeys(nodes)[1], now)[2]
    /\ listKeys(nodes)[2] \in Expired(items, now)
    /\ \E k \in Keys \ DOMAIN items, v \in ValuesTTL :
          \A e \in {makeRoom(State, k, fastCalculateItemSize(k, v))} :
             /\ listKeys(nodes)[1] \notin DOMAIN e.items
             /\ listKeys(nodes)[2] \in DOMAIN e.items

\* C37: with maxItems = N configured, in every state between operations
\* Len() <= max(N, 1): the count bound is exceeded only with N = 0, and
\* then by one entry alone, the one that was written last.
C37_LenAtMostMaxOrOne ==
    maxItems # <<>>
       => /\ LenOf(items) <= (IF maxItems[1] >= 1 THEN maxItems[1] ELSE 1)
          /\ LenOf(items) > maxItems[1]
                => /\ maxItems[1] = 0
                   /\ LenOf(items) = 1
                   /\ listKeys(nodes) = <<CHOOSE k \in DOMAIN items : TRUE>>
          /\ (maxItems[1] = 0 /\ last.op \in Writes)
                => DOMAIN items \subseteq {last.key}

\* With maxItems = 0 a write has just evicted the entry stored before it
\* and is stored alone: Len() is 1.
C37_Witness ==
    /\ maxItems = <<0>>
    /\ last.op \in Writes
    /\ last.removed # {}
    /\ DOMAIN items = {last.key}
    /\ LenOf(items) = 1

\* The expiration heap is ordered and its slots know their positions:
\* no child expires before its parent, and the index field of every slot
\* is its position in the array.
HeapOrdered ==
    /\ \A i \in 2..Len(expirationQueue) :
          expirationQueue[i \div 2].expireTime
             <= expirationQueue[i].expireTime
    /\ \A i \in 1..Len(expirationQueue) :
          expirationQueue[i].index = i - 1

\* C38: expiration index consistency: after every operation the heap is a
\* min-heap on expiry time, every slot's index field is its position in
\* the array, every entry of expirationMap points to a slot that is in
\* the heap and carries that key, and the heap and expirationMap hold the
\* same number of slots.
C38_Original ==
    /\ HeapOrdered
    /\ \A k \in DOMAIN expirationMap :
          /\ expirationMap[k] \in 1..Len(expirationQueue)
          /\ expirationQueue[expirationMap[k]].key = k
    /\ Len(expirationQueue) = Cardinality(DOMAIN expirationMap)

\* What holds of C38: the heap order, the index fields, and the entries
\* of expirationMap, each of which points to a slot of its key in the heap.
C38_HeapAndPointers ==
    /\ HeapOrdered
    /\ \A k \in DOMAIN expirationMap :
          /\ expirationMap[k] \in 1..Len(expirationQueue)
          /\ expirationQueue[expirationMap[k]].key = k
    /\ Len(expirationQueue) >= Cardinality(DOMAIN expirationMap)

\* The nodes of the list after the head sentinel, in order, up to the
\* tail sentinel.
RECURSIVE chainFrom(_, _, _)
chainFrom(ns, current, fuel) ==
    IF current = tail \/ current = nilNode \/ fuel = 0 THEN <<>>
    ELSE <<current>> \o chainFrom(ns, ns[current].next, fuel - 1)

chain == chainFrom(nodes, nodes[head].next, MaxKeys + 2)

\* C39: recency list well-formedness: after every operation the list from
\* the head sentinel to the tail sentinel is a consistent doubly linked
\* chain (x.next.prev = x for every node), the sentinels are never
\* removed, no key appears twice, and the Node of each stored entry is the
\* node of the list that carries the entry's key; this although eviction
\* unlinks the oldest node twice (removeHead, then removeItemByKey).
C39_ListWellFormed ==
    /\ nodes[head].prev = nilNode /\ nodes[tail].next = nilNode
    /\ head \notin Range(chain) /\ tail \notin Range(chain)
    /\ nodes[nodes[head].next].prev = head
    /\ nodes[nodes[tail].prev].next = tail
    /\ \A i \in 1..Len(chain) :
          /\ nodes[chain[i]].next \in NodeIds
          /\ nodes[nodes[chain[i]].next].prev = chain[i]
          /\ nodes[chain[i]].prev \in NodeIds
          /\ nodes[nodes[chain[i]].prev].next = chain[i]
    /\ IF chain = <<>> THEN nodes[head].next = tail
       ELSE nodes[chain[Len(chain)]].next = tail
    /\ \A i, j \in 1..Len(chain) :
          i # j => nodes[chain[i]].key # nodes[chain[j]].key
    /\ \A k \in DOMAIN items :
          /\ items[k].Node \in Range(chain)
          /\ nodes[items[k].Node].key = k

\* An insert at the item limit has just evicted the oldest node
\* (unlinked twice) and linked its own before the tail sentinel.
C39_Witness ==
    /\ maxItems = <<2>>
    /\ size = <<>>
    /\ last.op \in Writes
    /\ Cardinality(last.removed) = 1
    /\ LenOf(items) = 2
    /\ Len(chain) = 2
    /\ nodes[tail].prev = items[last.key].Node
    /\ nodes[nodes[head].next].prev = head
====
